---- MODULE Spec2Model ----
(***************************************************************************)
(* Model of the TalentScout resume pipeline:                               *)
(*   - info_extractor.py : extract_resume_info_with_qwen,                  *)
(*                         process_resume_file, process_all_resumes        *)
(*   - text_extractor.py : TextExtractor.convert_pdf_to_images,            *)
(*                         extract_text, save_extracted_text               *)
(* Strings are sequences of tokens.  Python dicts are functions from key   *)
(* strings to values; every JSON value is a record [t, v] so that values   *)
(* of different JSON types stay comparable.                                *)
(***************************************************************************)
EXTENDS Integers, Sequences, FiniteSets, TLC

\* ------------------------------------------------------------------------
\* Bounds
\* ------------------------------------------------------------------------
MaxRespLen == 5
MaxBatchRespLen == 3
MaxFiles == 2
MaxPages == 2
MaxRegions == 2
MaxPathLen == 3
MaxSaves == 2

\* ------------------------------------------------------------------------
\* Generic helpers
\* ------------------------------------------------------------------------
SeqsUpTo(S, n) == UNION {[1..k -> S] : k \in 0..n}

\* ------------------------------------------------------------------------
\* JSON values and Python dicts
\* ------------------------------------------------------------------------
None == [t |-> "null", v |-> <<>>]
Str(s) == [t |-> "str", v |-> <<s>>]
List(l) == [t |-> "list", v |-> l]
Obj(toks) == [t |-> "obj", v |-> toks]

EmptyDict == [k \in {} |-> None]
Put(d, k, val) == [x \in (DOMAIN d) \cup {k} |-> IF x = k THEN val ELSE d[x]]
\* dict.get(key, default)
Get(d, k, default) == IF k \in DOMAIN d THEN d[k] ELSE default

\* ------------------------------------------------------------------------
\* Language-model responses.  A response is a sequence of tokens:
\*   "{" "}"   the brace characters
\*   "p"       a run of brace-free text that is not JSON (prose, ```json)
\*   "k=..."   a complete member  "key": value  of an object
\*   "lo:"     the member key  "location":  whose value is the object that
\*             follows it
\* ------------------------------------------------------------------------
MemberToks == {"fn=s", "ts=l", "ts=n", "ts=s", "er=s"}
KeyToks == {"lo:"}
RespToks == {"{", "}", "p"} \cup MemberToks \cup KeyToks

Key(tok) ==
    CASE tok = "fn=s" -> "full_name"
      [] tok \in {"ts=l", "ts=n", "ts=s"} -> "tech_stack"
      [] tok = "er=s" -> "error"
      [] tok = "lo:" -> "location"

Val(tok) ==
    CASE tok = "fn=s" -> Str("Jane Doe")
      [] tok = "ts=l" -> List(<<"Python", "AWS">>)
      [] tok = "ts=n" -> None
      [] tok = "ts=s" -> Str("Python")
      [] tok = "er=s" -> Str("none")

\* str.find / str.rfind: 0-based index of the first / last occurrence, or -1
Find(s, c) ==
    IF \E i \in 1..Len(s) : s[i] = c
    THEN (CHOOSE i \in 1..Len(s) : s[i] = c /\ \A j \in 1..(i-1) : s[j] # c) - 1
    ELSE -1

RFind(s, c) ==
    IF \E i \in 1..Len(s) : s[i] = c
    THEN (CHOOSE i \in 1..Len(s) : s[i] = c /\ \A j \in (i+1)..Len(s) : s[j] # c) - 1
    ELSE -1

\* s[a:b] for 0 <= a, 0 <= b <= len(s)
Slice(s, a, b) == SubSeq(s, a + 1, b)

\* The members of an object, read from position i (just after its "{") up to
\* and including its closing "}".  A repeated key keeps its last value.
RECURSIVE ParseMembers(_, _, _)
ParseMembers(s, i, acc) ==
    IF i > Len(s) THEN [ok |-> FALSE, obj |-> acc, next |-> i]
    ELSE IF s[i] = "}" THEN [ok |-> TRUE, obj |-> acc, next |-> i + 1]
    ELSE IF s[i] \in MemberToks
         THEN ParseMembers(s, i + 1, Put(acc, Key(s[i]), Val(s[i])))
    ELSE IF s[i] \in KeyToks /\ i + 1 <= Len(s) /\ s[i + 1] = "{"
         THEN LET r == ParseMembers(s, i + 2, EmptyDict) IN
              IF r.ok
              THEN ParseMembers(s, r.next,
                                Put(acc, Key(s[i]), Obj(SubSeq(s, i + 1, r.next - 1))))
              ELSE [ok |-> FALSE, obj |-> acc, next |-> i]
    ELSE [ok |-> FALSE, obj |-> acc, next |-> i]

\* json.loads: the whole text must be one JSON document; ok = FALSE stands
\* for JSONDecodeError
json_loads(s) ==
    IF Len(s) = 0 \/ s[1] # "{"
    THEN [ok |-> FALSE, obj |-> EmptyDict]
    ELSE LET r == ParseMembers(s, 2, EmptyDict) IN
         IF r.ok /\ r.next = Len(s) + 1
         THEN [ok |-> TRUE, obj |-> r.obj]
         ELSE [ok |-> FALSE, obj |-> EmptyDict]

DefaultResult ==
    [k \in {"full_name", "phone_number", "email", "location", "tech_stack", "error"} |->
        CASE k = "tech_stack" -> List(<<>>)
          [] k = "error" -> Str("Extraction failed")
          [] OTHER -> None]

Project(extracted_info) ==
    [k \in {"full_name", "phone_number", "email", "location", "tech_stack"} |->
        IF k = "tech_stack" THEN Get(extracted_info, "tech_stack", List(<<>>))
        ELSE Get(extracted_info, k, None)]

\* A call ends by returning a value or by raising an exception
Returned(val) == [raised |-> FALSE, exc |-> "none", value |-> val]
Raised(e) == [raised |-> TRUE, exc |-> e, value |-> EmptyDict]

\* The outcome of ollama.chat: the call raises, or returns a response text
LLMOutcomes ==
    {[ok |-> FALSE, content |-> <<>>]} \cup
    {[ok |-> TRUE, content |-> c] : c \in SeqsUpTo(RespToks, MaxRespLen)}

\* The body of the try block (lines 54-92).  It raises, returns the
\* projected record, or falls off its end (returned = FALSE).
TryBody(o) ==
    IF ~o.ok THEN [exc |-> "ModelCallError", returned |-> FALSE, value |-> EmptyDict]
    ELSE LET model_response == o.content
             json_start == Find(model_response, "{")
             json_end == RFind(model_response, "}") + 1
         IN  IF json_start >= 0 /\ json_end > 0
             THEN LET json_content == Slice(model_response, json_start, json_end)
                      parsed == json_loads(json_content)
                  IN  IF parsed.ok
                      THEN [exc |-> "none", returned |-> TRUE, value |-> Project(parsed.obj)]
                      ELSE [exc |-> "JSONDecodeError", returned |-> FALSE, value |-> EmptyDict]
             ELSE [exc |-> "none", returned |-> FALSE, value |-> EmptyDict]

\* a handler that logs and lets the exception go on to the caller
ExceptHandler_reraise(body) == body

\* except Exception (lines 94-95): every exception of the try body is
\* printed and swallowed; control continues after the try statement
ExceptHandler(body) == [body EXCEPT !.exc = "none"]

extract_resume_info_with_qwen(o) ==
    LET body == TryBody(o)
        after == IF body.exc # "none" THEN ExceptHandler(body) ELSE body
    IN  IF after.exc # "none" THEN Raised(after.exc)
        ELSE IF after.returned THEN Returned(after.value)
        ELSE Returned(DefaultResult)

\* open() / file.read() of process_resume_file raises when the file is not
\* readable; str(e) is the error text
ErrorOnly(e) == [k \in {"error"} |-> Str(e)]

\* process_resume_file without its try/except
process_resume_file_noexcept(readable, o) ==
    IF ~readable THEN Raised("OSError") ELSE extract_resume_info_with_qwen(o)

process_resume_file(readable, o) ==
    LET body == IF ~readable THEN Raised("OSError")
                ELSE extract_resume_info_with_qwen(o)
    IN  IF body.raised THEN Returned(ErrorOnly(body.exc)) ELSE body

\* Directory entries are names: sequences of tokens, the extension last
Names == {<<"a", ".txt">>, <<"b", ".txt">>, <<"c", ".txt">>, <<"d", ".pdf">>}
Directories == {d \in SUBSET Names : Cardinality(d) <= MaxFiles}

\* Path.glob('*.txt'): the entries whose name ends in .txt, each once, in
\* an order the file system chooses
Matches(name) == Len(name) >= 1 /\ name[Len(name)] = ".txt"
GlobOrders(d) ==
    LET m == {n \in d : Matches(n)} IN
    {f \in [1..Cardinality(m) -> m] : \A i, j \in DOMAIN f : i # j => f[i] # f[j]}

\* file_path.name as a record value
NameStr(name) == [t |-> "str", v |-> name]

\* responses the model gives during a batch
BatchToks == {"{", "}", "p", "fn=s", "ts=n"}
BatchLLMOutcomes ==
    {[ok |-> FALSE, content |-> <<>>]} \cup
    {[ok |-> TRUE, content |-> c] : c \in SeqsUpTo(BatchToks, MaxBatchRespLen)}

\* ------------------------------------------------------------------------
\* text_extractor.py: paths, OCR results, joining
\* ------------------------------------------------------------------------
\* Document paths: a stem followed by an extension, or an extension buried
\* inside the name
TextPaths == {<<"r", ".pdf">>, <<"r", ".PDF">>, <<"r", ".png">>, <<"r", ".pdf", ".png">>, <<".pdf", "r">>}

\* str.lower() on a path token
LowerTok(tok) == IF tok = ".PDF" THEN ".pdf" ELSE tok
Lower(path) == [i \in DOMAIN path |-> LowerTok(path[i])]
\* str.endswith(suffix) for a one-token suffix
EndsWith(path, suffix) == Len(path) >= 1 /\ path[Len(path)] = suffix

\* One detected region, as PaddleOCR returns it: [box, (text, confidence)]
Line(txt) == <<"box", <<txt, "conf">>>>
Lines == {Line("a"), Line("b")}
RegionLists == SeqsUpTo(Lines, MaxRegions)

\* The value of ocr.ocr(...): None, or a list with the region list of each
\* image it was given
OcrNone == [none |-> TRUE, res |-> <<>>]
OcrList(l) == [none |-> FALSE, res |-> l]
OcrResults ==
    {OcrNone, OcrList(<<>>)} \cup
    {OcrList(<<r>>) : r \in RegionLists} \cup
    {OcrList(<<r1, r2>>) : r1 \in {<<>>, <<Line("b")>>}, r2 \in {<<>>, <<Line("a")>>}}
\* Python truthiness of the result
Truthy(result) == ~result.none /\ Len(result.res) > 0

\* [line[1][0] for line in res]
RECURSIVE TextsOf(_)
TextsOf(res) ==
    IF res = <<>> THEN <<>> ELSE <<res[1][2][1]>> \o TextsOf(Tail(res))

\* [line[1][0] for res in result for line in res]
RECURSIVE TextsOfAll(_)
TextsOfAll(resl) ==
    IF resl = <<>> THEN <<>> ELSE TextsOf(resl[1]) \o TextsOfAll(Tail(resl))

\* "\n".join(lines)
RECURSIVE Join(_)
Join(lines) ==
    IF lines = <<>> THEN <<>>
    ELSE IF Len(lines) = 1 THEN <<lines[1]>>
    ELSE <<lines[1], "\n">> \o Join(Tail(lines))

NoText == [set |-> FALSE, s |-> <<>>]
TextValue(str) == [set |-> TRUE, s |-> str]

\* ------------------------------------------------------------------------
\* text_extractor.py: save_extracted_text.  Paths are sequences of
\* characters; os.path is posixpath.
\* ------------------------------------------------------------------------
SaveChars == {"/", ".", "a"}
SavePaths == SeqsUpTo(SaveChars, MaxPathLen)
Texts == {<<>>, <<"x">>}

\* os.path.basename
basename(path) == Slice(path, RFind(path, "/") + 1, Len(path))

\* str.rstrip('/')
RECURSIVE RStripSlash(_)
RStripSlash(str) ==
    IF Len(str) > 0 /\ str[Len(str)] = "/"
    THEN RStripSlash(SubSeq(str, 1, Len(str) - 1))
    ELSE str

\* os.path.dirname
dirname(path) ==
    LET head == Slice(path, 0, RFind(path, "/") + 1) IN
    IF Len(head) > 0 /\ \E k \in 1..Len(head) : head[k] # "/"
    THEN RStripSlash(head)
    ELSE head

\* os.path.splitext: <<root, ext>>; leading dots of the last component are
\* not an extension
splitext(path) ==
    LET sepIndex == RFind(path, "/")
        dotIndex == RFind(path, ".")
    IN  IF /\ dotIndex > sepIndex
           /\ \E k \in (sepIndex + 1)..(dotIndex - 1) : path[k + 1] # "."
        THEN <<Slice(path, 0, dotIndex), Slice(path, dotIndex, Len(path))>>
        ELSE <<path, <<>>>>

\* os.path.join(a, b)
join(a, b) ==
    IF Len(b) > 0 /\ b[1] = "/" THEN b
    ELSE IF Len(a) = 0 \/ a[Len(a)] = "/" THEN a \o b
    ELSE a \o <<"/">> \o b

\* lines 68-71
OutputPath(original_file_path) ==
    join(dirname(original_file_path),
         <<"extracted_">> \o splitext(basename(original_file_path))[1] \o <<".", "t", "x", "t">>)

\* the file opened in append mode
WriteFile_append(fsys, path, txt) ==
    [q \in (DOMAIN fsys) \cup {path} |->
        IF q = path THEN (IF path \in DOMAIN fsys THEN fsys[path] \o txt ELSE txt)
        ELSE fsys[q]]

\* open(output_path, 'w') followed by f.write(text)
WriteFile(fsys, path, txt) ==
    [q \in (DOMAIN fsys) \cup {path} |-> IF q = path THEN txt ELSE fsys[q]]

SaveReturned(path) == [raised |-> FALSE, path |-> path]
SaveRaised == [raised |-> TRUE, path |-> <<>>]

\* ------------------------------------------------------------------------
\* State
\* ------------------------------------------------------------------------
VARIABLES
    llm,       \* extract: the outcome the language model will produce
    info,      \* extract: what extract_resume_info_with_qwen handed back
    xpc,       \* extract: "call" | "returned"
    dir,       \* batch: the names in the directory
    globbed,   \* batch: the sequence Path.glob yields
    bidx,      \* batch: position of the for loop in globbed
    results,   \* batch: the results list
    bpc,       \* batch: "start" | "loop" | "returned" | "raised"
    file_path, \* text: the argument of extract_text
    fs,        \* text: the paths that exist in the file system
    fs0,       \* text: the file system when extract_text was called
    tpc,       \* text: position in extract_text / convert_pdf_to_images
    docOpen,   \* text: the fitz document is open
    page_count,\* text: pdf_document.page_count
    page_num,  \* text: loop variable of convert_pdf_to_images
    images,    \* text: the images list (an image is named by its page)
    img_idx,   \* text: number of images the OCR loop has finished
    text,      \* text: the text list of extract_text
    tret,      \* text: the value extract_text returned
    texc,      \* text: the exception in flight or raised
    openCalls, \* text: calls of fitz.open
    rasterCalls, \* text: calls of get_pixmap, per page
    ocrCalls,  \* text: calls of ocr.ocr, per page image (-1: the file)
    ocrLog,    \* text: the results ocr.ocr returned, in call order
    pool,      \* save: the original paths save_extracted_text is called with
    sfs,       \* save: the text files on disk, path -> content
    nsaves,    \* save: number of calls made
    lastOrig,  \* save: original_file_path of the last call
    lastText,  \* save: text of the last call
    overwrote, \* save: the last call found a file at its output path
    sret       \* save: how the last call ended

xvars == <<llm, info, xpc>>
bvars == <<dir, globbed, bidx, results, bpc>>
tvars == <<file_path, fs, fs0, tpc, docOpen, page_count, page_num, images, img_idx,
           text, tret, texc, openCalls, rasterCalls, ocrCalls, ocrLog>>
svars == <<pool, sfs, nsaves, lastOrig, lastText, overwrote, sret>>
vars == <<xvars, bvars, tvars, svars>>

IdleExtract == llm = [ok |-> FALSE, content |-> <<>>] /\ info = Returned(EmptyDict) /\ xpc = "idle"
IdleText ==
    /\ file_path = <<>> /\ fs = {} /\ fs0 = {} /\ tpc = "idle" /\ docOpen = FALSE
    /\ page_count = 0 /\ page_num = 0 /\ images = <<>> /\ img_idx = 0 /\ text = <<>>
    /\ tret = NoText /\ texc = "none" /\ openCalls = 0
    /\ rasterCalls = [p \in {} |-> 0] /\ ocrCalls = [p \in {} |-> 0] /\ ocrLog = <<>>
IdleSave ==
    /\ pool = {} /\ sfs = [q \in {} |-> <<>>] /\ nsaves = 0 /\ lastOrig = <<>>
    /\ lastText = <<>> /\ overwrote = FALSE /\ sret = SaveRaised
IdleBatch == dir = {} /\ globbed = <<>> /\ bidx = 0 /\ results = <<>> /\ bpc = "idle"

\* ------------------------------------------------------------------------
\* extract_resume_info_with_qwen applied to every language-model outcome
\* ------------------------------------------------------------------------
InitExtract ==
    /\ llm \in LLMOutcomes
    /\ info = Returned(EmptyDict)
    /\ xpc = "call"
    /\ IdleBatch
    /\ IdleText
    /\ IdleSave

Extract ==
    /\ xpc = "call"
    /\ info' = extract_resume_info_with_qwen(llm)
    /\ xpc' = "returned"
    /\ UNCHANGED <<llm, bvars, tvars, svars>>

NextExtract == Extract

SpecExtract == InitExtract /\ [][NextExtract]_vars

\* ------------------------------------------------------------------------
\* process_all_resumes
\* ------------------------------------------------------------------------
InitBatch ==
    /\ dir \in Directories
    /\ globbed = <<>>
    /\ bidx = 0
    /\ results = <<>>
    /\ bpc = "start"
    /\ IdleExtract
    /\ IdleText
    /\ IdleSave

\* results = []; the glob generator is created
Glob ==
    /\ bpc = "start"
    /\ globbed' \in GlobOrders(dir)
    /\ bidx' = 1
    /\ results' = <<>>
    /\ bpc' = "loop"
    /\ UNCHANGED <<dir, xvars, tvars, svars>>

\* one iteration of the for loop (lines 139-143)
ProcessOne ==
    /\ bpc = "loop"
    /\ bidx <= Len(globbed)
    /\ \E readable \in BOOLEAN : \E o \in BatchLLMOutcomes :
         LET r == process_resume_file(readable, o) IN
         IF r.raised
         THEN /\ bpc' = "raised"
              /\ UNCHANGED <<results, bidx>>
         ELSE /\ results' = Append(results, Put(r.value, "file_name", NameStr(globbed[bidx])))
              /\ bidx' = bidx + 1
              /\ bpc' = "loop"
    /\ UNCHANGED <<dir, globbed, xvars, tvars, svars>>

\* the generator is exhausted: return results
ReturnResults ==
    /\ bpc = "loop"
    /\ bidx > Len(globbed)
    /\ bpc' = "returned"
    /\ UNCHANGED <<dir, globbed, bidx, results, xvars, tvars, svars>>

NextBatch == Glob \/ ProcessOne \/ ReturnResults

SpecBatch == InitBatch /\ [][NextBatch]_vars

\* ------------------------------------------------------------------------
\* TextExtractor.extract_text and convert_pdf_to_images
\* ------------------------------------------------------------------------
Pages == 0..(MaxPages - 1)

InitText ==
    /\ file_path \in TextPaths
    /\ fs \in {{}, {file_path}}
    /\ fs0 = fs
    /\ tpc = "start"
    /\ docOpen = FALSE
    /\ page_count = 0
    /\ page_num = 0
    /\ images = <<>>
    /\ img_idx = 0
    /\ text = <<>>
    /\ tret = NoText
    /\ texc = "none"
    /\ openCalls = 0
    /\ rasterCalls = [p \in Pages |-> 0]
    /\ ocrCalls = [p \in Pages \cup {-1} |-> 0]
    /\ ocrLog = <<>>
    /\ IdleExtract
    /\ IdleBatch
    /\ IdleSave

\* the dispatch on the extension without the existence check
CheckExists_nocheck ==
    /\ tpc = "start"
    /\ tpc' = IF EndsWith(Lower(file_path), ".pdf") THEN "open" ELSE "ocr_file"
    /\ UNCHANGED <<file_path, fs, fs0, docOpen, page_count, page_num, images, img_idx,
                   text, tret, texc, openCalls, rasterCalls, ocrCalls, ocrLog, xvars, bvars, svars>>

\* lines 37-40, 57: the existence check and the dispatch on the extension
CheckExists ==
    /\ tpc = "start"
    /\ IF file_path \notin fs
       THEN texc' = "FileNotFoundError" /\ tpc' = "except"
       ELSE /\ texc' = texc
            /\ tpc' = IF EndsWith(Lower(file_path), ".pdf") THEN "open" ELSE "ocr_file"
    /\ UNCHANGED <<file_path, fs, fs0, docOpen, page_count, page_num, images, img_idx,
                   text, tret, openCalls, rasterCalls, ocrCalls, ocrLog, xvars, bvars, svars>>

\* lines 19-20: images = []; fitz.open(pdf_path) opens the document or raises
OpenPdf ==
    /\ tpc = "open"
    /\ openCalls' = openCalls + 1
    /\ images' = <<>>
    /\ \E ok \in (IF file_path \in fs THEN BOOLEAN ELSE {FALSE}) :
         IF ok
         THEN /\ docOpen' = TRUE
              /\ page_count' \in 0..MaxPages
              /\ page_num' = 0
              /\ tpc' = "raster"
              /\ texc' = texc
         ELSE /\ texc' = "ConversionError"
              /\ tpc' = "conv_except"
              /\ UNCHANGED <<docOpen, page_count, page_num>>
    /\ UNCHANGED <<file_path, fs, fs0, img_idx, text, tret, rasterCalls, ocrCalls,
                   ocrLog, xvars, bvars, svars>>

\* lines 22-26: one iteration of the page loop
RasterPage ==
    /\ tpc = "raster"
    /\ page_num < page_count
    /\ rasterCalls' = [rasterCalls EXCEPT ![page_num] = @ + 1]
    /\ \E ok \in BOOLEAN :
         IF ok
         THEN /\ images' = Append(images, page_num)
              /\ page_num' = page_num + 1
              /\ UNCHANGED <<tpc, texc>>
         ELSE /\ texc' = "ConversionError"
              /\ tpc' = "conv_except"
              /\ UNCHANGED <<images, page_num>>
    /\ UNCHANGED <<file_path, fs, fs0, docOpen, page_count, img_idx, text, tret,
                   openCalls, ocrCalls, ocrLog, xvars, bvars, svars>>

\* lines 28-29, 41-42: pdf_document.close(); return images; text = []
ClosePdf ==
    /\ tpc = "raster"
    /\ page_num >= page_count
    /\ docOpen' = FALSE
    /\ text' = <<>>
    /\ img_idx' = 0
    /\ tpc' = "ocr_loop"
    /\ UNCHANGED <<file_path, fs, fs0, page_count, page_num, images, tret, texc,
                   openCalls, rasterCalls, ocrCalls, ocrLog, xvars, bvars, svars>>

\* lines 30-32: the handler of convert_pdf_to_images logs and re-raises
ConvertExcept ==
    /\ tpc = "conv_except"
    /\ tpc' = "except"
    /\ UNCHANGED <<file_path, fs, fs0, docOpen, page_count, page_num, images, img_idx,
                   text, tret, texc, openCalls, rasterCalls, ocrCalls, ocrLog, xvars, bvars, svars>>

\* an image loop that logs an OCR failure and goes on to the next image
OcrPage_swallow ==
    /\ tpc = "ocr_loop"
    /\ img_idx < Len(images)
    /\ ocrCalls' = [ocrCalls EXCEPT ![images[img_idx + 1]] = @ + 1]
    /\ \/ /\ texc' = "RecognitionError"
          /\ img_idx' = img_idx + 1
          /\ UNCHANGED <<tpc, text, ocrLog>>
       \/ \E result \in OcrResults :
          /\ ocrLog' = Append(ocrLog, result)
          /\ text' = IF Truthy(result) THEN text \o TextsOfAll(result.res) ELSE text
          /\ img_idx' = img_idx + 1
          /\ UNCHANGED <<tpc, texc>>
    /\ UNCHANGED <<file_path, fs, fs0, docOpen, page_count, page_num, images, tret,
                   openCalls, rasterCalls, xvars, bvars, svars>>

\* an image loop that reads only result[0]
OcrPage_firstonly ==
    /\ tpc = "ocr_loop"
    /\ img_idx < Len(images)
    /\ ocrCalls' = [ocrCalls EXCEPT ![images[img_idx + 1]] = @ + 1]
    /\ \/ /\ texc' = "RecognitionError"
          /\ tpc' = "except"
          /\ UNCHANGED <<text, img_idx, ocrLog>>
       \/ \E result \in OcrResults :
          /\ ocrLog' = Append(ocrLog, result)
          /\ text' = IF Truthy(result) THEN text \o TextsOf(result.res[1]) ELSE text
          /\ img_idx' = img_idx + 1
          /\ UNCHANGED <<tpc, texc>>
    /\ UNCHANGED <<file_path, fs, fs0, docOpen, page_count, page_num, images, tret,
                   openCalls, rasterCalls, xvars, bvars, svars>>

\* lines 44-54: one iteration of the image loop
OcrPage ==
    /\ tpc = "ocr_loop"
    /\ img_idx < Len(images)
    /\ ocrCalls' = [ocrCalls EXCEPT ![images[img_idx + 1]] = @ + 1]
    /\ \/ /\ texc' = "RecognitionError"
          /\ tpc' = "except"
          /\ UNCHANGED <<text, img_idx, ocrLog>>
       \/ \E result \in OcrResults :
          /\ ocrLog' = Append(ocrLog, result)
          /\ text' = IF Truthy(result) THEN text \o TextsOfAll(result.res) ELSE text
          /\ img_idx' = img_idx + 1
          /\ UNCHANGED <<tpc, texc>>
    /\ UNCHANGED <<file_path, fs, fs0, docOpen, page_count, page_num, images, tret,
                   openCalls, rasterCalls, xvars, bvars, svars>>

\* line 56: return "\n".join(text)
ReturnPdfText ==
    /\ tpc = "ocr_loop"
    /\ img_idx >= Len(images)
    /\ tret' = TextValue(Join(text))
    /\ tpc' = "returned"
    /\ UNCHANGED <<file_path, fs, fs0, docOpen, page_count, page_num, images, img_idx,
                   text, texc, openCalls, rasterCalls, ocrCalls, ocrLog, xvars, bvars, svars>>

\* lines 58-59: OCR of the file itself
OcrFile ==
    /\ tpc = "ocr_file"
    /\ ocrCalls' = [ocrCalls EXCEPT ![-1] = @ + 1]
    /\ \/ /\ texc' = "RecognitionError"
          /\ tpc' = "except"
          /\ UNCHANGED <<tret, ocrLog>>
       \/ \E result \in OcrResults :
          /\ ocrLog' = Append(ocrLog, result)
          /\ tret' = IF Truthy(result) THEN TextValue(Join(TextsOfAll(result.res)))
                     ELSE TextValue(<<>>)
          /\ tpc' = "returned"
          /\ texc' = texc
    /\ UNCHANGED <<file_path, fs, fs0, docOpen, page_count, page_num, images, img_idx,
                   text, openCalls, rasterCalls, xvars, bvars, svars>>

\* lines 61-63: the handler of extract_text logs and re-raises
ExtractExcept ==
    /\ tpc = "except"
    /\ tpc' = "raised"
    /\ UNCHANGED <<file_path, fs, fs0, docOpen, page_count, page_num, images, img_idx,
                   text, tret, texc, openCalls, rasterCalls, ocrCalls, ocrLog, xvars, bvars, svars>>

NextText ==
    \/ CheckExists \/ OpenPdf \/ RasterPage \/ ClosePdf \/ ConvertExcept
    \/ OcrPage \/ ReturnPdfText \/ OcrFile \/ ExtractExcept

SpecText == InitText /\ [][NextText]_vars

\* ------------------------------------------------------------------------
\* TextExtractor.save_extracted_text
\* ------------------------------------------------------------------------
InitSave ==
    /\ pool \in {{o1, o2} : o1 \in SavePaths, o2 \in SavePaths}
    /\ sfs = [q \in {} |-> <<>>]
    /\ nsaves = 0
    /\ lastOrig = <<>>
    /\ lastText = <<>>
    /\ overwrote = FALSE
    /\ sret = SaveRaised
    /\ IdleExtract
    /\ IdleBatch
    /\ IdleText

\* one call of save_extracted_text (lines 65-81); open() may fail, and then
\* the error is logged and re-raised with nothing written
Save ==
    /\ nsaves < MaxSaves
    /\ \E orig \in pool : \E txt \in Texts : \E ok \in BOOLEAN :
         LET output_path == OutputPath(orig) IN
         /\ lastOrig' = orig
         /\ lastText' = txt
         /\ overwrote' = (ok /\ output_path \in DOMAIN sfs)
         /\ sfs' = IF ok THEN WriteFile(sfs, output_path, txt) ELSE sfs
         /\ sret' = IF ok THEN SaveReturned(output_path) ELSE SaveRaised
    /\ nsaves' = nsaves + 1
    /\ UNCHANGED <<pool, xvars, bvars, tvars>>

NextSave == Save

SpecSave == InitSave /\ [][NextSave]_vars

\* ------------------------------------------------------------------------
\* Claims about extract_resume_info_with_qwen
\* ------------------------------------------------------------------------
FiveKeys == {"full_name", "phone_number", "email", "location", "tech_stack"}

FirstOpen(c) == CHOOSE i \in 1..Len(c) : c[i] = "{" /\ \A j \in 1..(i-1) : c[j] # "{"
LastClose(c) == CHOOSE i \in 1..Len(c) : c[i] = "}" /\ \A j \in (i+1)..Len(c) : c[j] # "}"
HasOpen(c) == \E i \in 1..Len(c) : c[i] = "{"
HasClose(c) == \E i \in 1..Len(c) : c[i] = "}"

\* the response yields no parseable JSON after brace-stripping
NotParseable(o) ==
    \/ ~o.ok
    \/ ~HasOpen(o.content)
    \/ ~HasClose(o.content)
    \/ LastClose(o.content) < FirstOpen(o.content)
    \/ ~json_loads(SubSeq(o.content, FirstOpen(o.content), LastClose(o.content))).ok

\* C1: every language-model outcome that yields no parseable JSON after
\* brace-stripping makes extract_resume_info_with_qwen return (not raise)
\* exactly the default record: four null scalars, empty tech_stack, error set.
C1_DefaultOnUnparseable ==
    (xpc = "returned" /\ NotParseable(llm)) =>
        /\ ~info.raised
        /\ DOMAIN info.value = FiveKeys \cup {"error"}
        /\ \A k \in FiveKeys \ {"tech_stack"} : info.value[k] = None
        /\ info.value["tech_stack"] = List(<<>>)
        /\ info.value["error"].t = "str"

\* C1 witness: a response whose last "}" precedes its first "{" was answered
\* with the default record
C1_Witness ==
    /\ xpc = "returned"
    /\ llm.ok /\ HasOpen(llm.content) /\ HasClose(llm.content)
    /\ LastClose(llm.content) < FirstOpen(llm.content)
    /\ info = Returned(DefaultResult)

\* Text around the object: free text, which may itself hold brace characters
ProseToks == {"p", "{", "}"}
WellFormedObject(s) == json_loads(s).ok
ContainsObject(s) ==
    \E i \in 1..Len(s) : \E j \in i..Len(s) : WellFormedObject(SubSeq(s, i, j))

\* c = prose ++ object ++ prose, with no second object in the prose
IsWrappedObject(c, i, j) ==
    /\ 1 <= i /\ i <= j /\ j <= Len(c)
    /\ WellFormedObject(SubSeq(c, i, j))
    /\ \A n \in (1..(i-1)) \cup ((j+1)..Len(c)) : c[n] \in ProseToks
    /\ ~ContainsObject(SubSeq(c, 1, i - 1))
    /\ ~ContainsObject(SubSeq(c, j + 1, Len(c)))

\* what C2 promises for the object o
Normalized(o) ==
    [k \in FiveKeys |->
        IF k \in DOMAIN o THEN o[k]
        ELSE IF k = "tech_stack" THEN List(<<>>) ELSE None]

\* C2: a response holding a single well-formed JSON object, optionally with
\* prose before and/or after it, yields the record with exactly the five
\* keys, each taken from the object or defaulted, extra keys dropped and no
\* error key.
C2_SingleObjectProjected ==
    (xpc = "returned" /\ llm.ok) =>
        \A i \in 1..Len(llm.content) : \A j \in i..Len(llm.content) :
            IsWrappedObject(llm.content, i, j) =>
                info = Returned(Normalized(json_loads(SubSeq(llm.content, i, j)).obj))

\* C5: tech_stack of every returned record is a sequence, never null and
\* never a scalar.
C5_TechStackIsSequence ==
    xpc = "returned" =>
        /\ ~info.raised
        /\ "tech_stack" \in DOMAIN info.value
        /\ info.value["tech_stack"].t = "list"

\* ------------------------------------------------------------------------
\* Claims about process_resume_file and process_all_resumes
\* ------------------------------------------------------------------------
\* C3: every record handed to a caller holds all five keys, whether
\* extraction succeeded or failed at any step (unreadable file included).
C3_FiveKeysAlways ==
    \A i \in 1..Len(results) : FiveKeys \subseteq DOMAIN results[i]

TxtFiles(d) == {n \in d : n[Len(n)] = ".txt"}

\* C4: the batch never aborts; the records collected so far are those of the
\* files visited so far, each tagged with its own file name; the returned
\* list holds exactly one record per .txt file of the directory.
C4_OneRecordPerFile ==
    /\ bpc # "raised"
    /\ Len(results) <= Len(globbed)
    /\ \A i \in 1..Len(results) :
         /\ "file_name" \in DOMAIN results[i]
         /\ results[i]["file_name"] = NameStr(globbed[i])
    /\ bpc = "loop" => Len(results) = bidx - 1
    /\ bpc = "returned" =>
         /\ Len(results) = Cardinality(TxtFiles(dir))
         /\ \A n \in TxtFiles(dir) :
              Cardinality({i \in 1..Len(results) : results[i]["file_name"] = NameStr(n)}) = 1

\* C4 witness: a returned batch of two records, one of a file that could not
\* be read and one of a file that was extracted
C4_Witness ==
    /\ bpc = "returned"
    /\ Len(results) = 2
    /\ \E i, j \in 1..2 :
         /\ DOMAIN results[i] = {"error", "file_name"}
         /\ DOMAIN results[j] = FiveKeys \cup {"file_name"}

\* ------------------------------------------------------------------------
\* Claims about TextExtractor.extract_text and convert_pdf_to_images
\* ------------------------------------------------------------------------
RECURSIVE SumCalls(_, _)
SumCalls(f, S) ==
    IF S = {} THEN 0
    ELSE LET x == CHOOSE y \in S : TRUE IN f[x] + SumCalls(f, S \ {x})

TotalRaster == SumCalls(rasterCalls, DOMAIN rasterCalls)
TotalOcr == SumCalls(ocrCalls, DOMAIN ocrCalls)

\* C6: for a path that does not exist extract_text raises NotFound to its
\* caller, never calls the rasterizer or the OCR engine, returns nothing and
\* leaves the file system as it was.
C6_MissingPathNotFound ==
    file_path \notin fs0 =>
        /\ openCalls = 0 /\ TotalRaster = 0 /\ TotalOcr = 0
        /\ fs = fs0
        /\ tret = NoText
        /\ tpc \in {"start", "except", "raised"}
        /\ tpc \in {"except", "raised"} => texc = "FileNotFoundError"

\* C6 witness: extract_text of a missing PDF path has raised NotFound
C6_Witness ==
    /\ tpc = "raised"
    /\ file_path \notin fs0
    /\ EndsWith(Lower(file_path), ".pdf")
    /\ texc = "FileNotFoundError"

CollaboratorFailed == texc \in {"ConversionError", "RecognitionError"}

\* C7: once rasterization or OCR has failed, no collaborator is called again
\* and no text is ever returned: the call ends by raising that failure.  No
\* page is rasterized twice and no page image is recognized twice.
C7_FailureSurfacedNoRetry ==
    /\ [](/\ openCalls <= 1
          /\ \A q \in DOMAIN rasterCalls : rasterCalls[q] <= 1
          /\ \A q \in DOMAIN ocrCalls : ocrCalls[q] <= 1
          /\ CollaboratorFailed => (tret = NoText /\ tpc \in {"conv_except", "except", "raised"}))
    /\ [][CollaboratorFailed =>
            /\ openCalls' = openCalls
            /\ rasterCalls' = rasterCalls
            /\ ocrCalls' = ocrCalls
            /\ texc' = texc
            /\ tret' = NoText]_vars

\* C7 witness: OCR failed on the second page of a PDF after the first page
\* had yielded text, and the call raised
C7_Witness ==
    /\ tpc = "raised"
    /\ texc = "RecognitionError"
    /\ Len(ocrLog) = 1 /\ Len(text) > 0
    /\ ocrCalls[1] = 1

\* every region string of the logged OCR results, page by page, each page in
\* the engine's order
RECURSIVE RegionStrings(_)
RegionStrings(regions) ==
    IF Len(regions) = 0 THEN <<>>
    ELSE Append(RegionStrings(SubSeq(regions, 1, Len(regions) - 1)),
                regions[Len(regions)][2][1])

RECURSIVE ResultStrings(_)
ResultStrings(resl) ==
    IF Len(resl) = 0 THEN <<>>
    ELSE ResultStrings(SubSeq(resl, 1, Len(resl) - 1)) \o RegionStrings(resl[Len(resl)])

RECURSIVE LogStrings(_)
LogStrings(log) ==
    IF Len(log) = 0 THEN <<>>
    ELSE LogStrings(SubSeq(log, 1, Len(log) - 1)) \o ResultStrings(log[Len(log)].res)

\* str is the strings of strs, in order, with "\n" between neighbours
IsNewlineJoin(str, strs) ==
    /\ Len(str) = IF Len(strs) = 0 THEN 0 ELSE 2 * Len(strs) - 1
    /\ \A k \in 1..Len(strs) : str[2 * k - 1] = strs[k]
    /\ \A k \in 1..(Len(strs) - 1) : str[2 * k] = "\n"

C10_DocumentClosedOnExit ==
    tpc \in {"ocr_loop", "except", "raised", "returned"} => ~docOpen

\* ------------------------------------------------------------------------
\* Claims about TextExtractor.save_extracted_text
\* ------------------------------------------------------------------------
\* a base name without its last extension: cut at the last dot that has a
\* character other than a dot somewhere before it
ExtDots(name) == {k \in 1..Len(name) : name[k] = "." /\ \E j \in 1..(k - 1) : name[j] # "."}
StemOf(name) ==
    IF ExtDots(name) = {} THEN name
    ELSE SubSeq(name, 1, (CHOOSE k \in ExtDots(name) : \A m \in ExtDots(name) : m <= k) - 1)

\* C8: a successful save returns a path in the original's directory named
\* extracted_<base name without last extension>.txt, leaves there exactly the
\* text just saved (overwriting, never appending) and touches no other file;
\* originals with the same directory and the same base name up to the
\* extension share one output path.
C8_SaveDeterministicOverwrite ==
    /\ [](\A o1, o2 \in pool :
            (dirname(o1) = dirname(o2) /\ StemOf(basename(o1)) = StemOf(basename(o2)))
                => OutputPath(o1) = OutputPath(o2))
    /\ [][(nsaves' = nsaves + 1 /\ ~sret'.raised) =>
            LET P == sret'.path IN
            /\ dirname(P) = dirname(lastOrig')
            /\ basename(P) = <<"extracted_">> \o StemOf(basename(lastOrig')) \o <<".", "t", "x", "t">>
            /\ DOMAIN sfs' = (DOMAIN sfs) \cup {P}
            /\ sfs'[P] = lastText'
            /\ \A q \in DOMAIN sfs : q # P => sfs'[q] = sfs[q]]_vars

\* C8 witness: two originals that differ only in their extension; the save
\* of one has overwritten the file written for the other with a new text
C8_Witness ==
    /\ pool = {<<"a", ".", "a">>, <<"a", ".">>}
    /\ nsaves >= 2
    /\ ~sret.raised
    /\ overwrote
    /\ lastText = <<"x">>
    /\ sfs = [q \in {<<"extracted_", "a", ".", "t", "x", "t">>} |-> <<"x">>]
====
